---- MODULE Spec2Model ----
(***************************************************************************)
(* Place Photo Finder: the /api/tripadvisor request handler (scrape of a   *)
(* search page and a place page, Wikipedia fallback), the image extraction *)
(* and link resolution it performs, and the browser's searchPhotos         *)
(* ranking.                                                                *)
(*                                                                         *)
(* Strings are sequences: a query or an anchor text is a sequence of       *)
(* characters, a URL is a sequence of lexical tokens ("https://", a host   *)
(* label, a path segment).  A regular expression of the source is the      *)
(* search for its tokens as a contiguous subsequence.                      *)
(***************************************************************************)
EXTENDS Integers, Sequences, FiniteSets, TLC

VARIABLES
    host,        \* which deployment serves the request: "vercel" | "express"
    req,         \* the incoming request: query.q and body.q, each maybe absent
    pc,          \* position of the handler / of the function under study
    query,       \* const query = String(q || '').trim()
    calls,       \* outbound network calls issued so far, in order
    searchPage,  \* res.data of the search fetch, while fetchTripAdvisorImages runs
    placeHref,   \* the candidate picked by link resolution (<<>> = null / not yet)
    imgs,        \* let imgs = [] ... = await fetchTripAdvisorImages(query, 10)
    scrape,      \* how the scrape leg settled: "pending" | "returned" | "threw"
    top,         \* the encyclopedia's top hit, while fetchWikipediaImages runs
    wiki,        \* const wiki = await fetchWikipediaImages(query, 10)
    wikiLeg,     \* how the encyclopedia leg settled: "idle" | "pending" | "returned" | "threw"
    responses,   \* responses sent on res, in order
    err,         \* the failure last caught by the handler ("" = none)
    doc,         \* image extraction under study: the document
    max,         \* image extraction under study: the max parameter
    list,        \* image extraction under study: the returned list
    apiKey,      \* searchPhotos: window.PEXELS_API_KEY is defined
    apiOk,       \* searchPhotos: response.ok
    photos,      \* searchPhotos: data.photos of the API response
    result,      \* searchPhotos: the returned sequence
    input,       \* elements.input.value
    searches,    \* the handleSearch invocations that passed the blank test, in order
    results,     \* what elements.results shows
    taResults,   \* what elements.taResults shows
    status       \* what elements.status shows

handlerVars == <<host, req, query, calls, searchPage, placeHref,
                 imgs, scrape, top, wiki, wikiLeg, responses, err>>
extractVars == <<doc, max, list>>
photoVars   == <<apiKey, apiOk, photos, result>>
browserVars == <<input, searches, results, taResults, status>>
vars == <<pc, handlerVars, extractVars, photoVars, browserVars>>

----------------------------------------------------------------------------
(* Bounds of the explored inputs. *)
MaxQueryLen == 2     \* characters of a raw q value
MaxAnchors  == 2     \* anchors of a search-results page
MaxWikiPages == 2    \* pages of an encyclopedia image listing
MaxPlaceImgs == 1    \* img elements of a place page served to the handler
MaxImgs     == 3     \* img elements of a place page under study
MaxMax      == 2     \* the max parameter under study
MaxPhotos   == 7     \* photos of a curated-API response
MaxSearches == 2     \* handleSearch invocations that pass the blank test

(* Program constants. *)
ScrapeMax  == 10     \* fetchTripAdvisorImages(query, 10)
WikiMax    == 10     \* fetchWikipediaImages(query, 10)
PhotoCount == 5      \* searchPhotos returns 5
MinWidth   == 2000   \* p.width >= 2000
MinHeight  == 1200   \* p.height >= 1200
SkeletonCount == 5   \* renderSkeleton(5)
TaShown    == 10     \* taPhotos.slice(0, 10)

----------------------------------------------------------------------------
(* Sequences. *)

Min2(a, b) == IF a < b THEN a ELSE b
Max2(a, b) == IF a > b THEN a ELSE b

\* Array.prototype.slice(0, n), n >= 0
Slice(s, n) == SubSeq(s, 1, Min2(Len(s), n))

SeqsUpTo(S, n) == UNION { [1..k -> S] : k \in 0..n }

Range(s) == { s[i] : i \in 1..Len(s) }

\* pat occurs in s as a contiguous subsequence at position i
MatchAt(s, pat, i) ==
    /\ i >= 1
    /\ i + Len(pat) - 1 <= Len(s)
    /\ \A j \in 1..Len(pat) : s[i + j - 1] = pat[j]

\* RegExp.prototype.test / String.prototype.includes for a literal pattern
Includes(s, pat) == \E i \in 1..(Len(s) + 1) : MatchAt(s, pat, i)

\* String.prototype.replace(pat, rep): the first occurrence only
ReplaceFirst(s, pat, rep) ==
    IF ~Includes(s, pat) THEN s
    ELSE LET i == CHOOSE k \in 1..Len(s) :
                      MatchAt(s, pat, k) /\ \A m \in 1..(k - 1) : ~MatchAt(s, pat, m)
         IN SubSeq(s, 1, i - 1) \o rep \o SubSeq(s, i + Len(pat), Len(s))

\* new Set() / Set.prototype.add / Array.from(set): insertion order, first wins
SetAdd(s, x) == IF x \in Range(s) THEN s ELSE Append(s, x)

----------------------------------------------------------------------------
(* Character strings: the query and anchor texts. *)

QChars == {" ", "P"}

LowerChar(c) == IF c = "P" THEN "p" ELSE IF c = "X" THEN "x" ELSE c

\* String.prototype.toLowerCase
ToLowerCase(s) == [i \in 1..Len(s) |-> LowerChar(s[i])]

RECURSIVE TrimStart(_)
TrimStart(s) == IF s = <<>> THEN s
                ELSE IF Head(s) = " " THEN TrimStart(Tail(s)) ELSE s

RECURSIVE TrimEnd(_)
TrimEnd(s) == IF s = <<>> THEN s
              ELSE IF s[Len(s)] = " " THEN TrimEnd(SubSeq(s, 1, Len(s) - 1)) ELSE s

\* String.prototype.trim
Trim(s) == TrimEnd(TrimStart(s))

\* encodeURIComponent on the characters of the model
EncodeURIComponent(s) == [i \in 1..Len(s) |-> IF s[i] = " " THEN "%20" ELSE s[i]]

----------------------------------------------------------------------------
(* PlaceLinkResolver: fetchTripAdvisorImages, the search-results page. *)

\* An anchor is [href, text]; href <<>> is a missing or empty attribute.
Hrefs == { <<>>,
           <<"/", "Attraction", "_Review", "-g1">>,
           <<"/", "Hotel", "_Review", "-g2">>,
           <<"https://", "www.tripadvisor.com", "/", "Tour", "-Activities-", "g3">> }

Texts == { <<>>, <<"x", "P">> }

Anchors == [href : Hrefs, text : Texts]

SearchPages == SeqsUpTo(Anchors, MaxAnchors)

\* /Attraction/.test(href) || /Attraction_Review/.test(href) || /-Activities-/.test(href)
PathPattern(href) ==
    \/ Includes(href, <<"Attraction">>)
    \/ Includes(href, <<"Attraction", "_Review">>)
    \/ Includes(href, <<"-Activities-">>)

\* text.includes(String(query).toLowerCase()), text already lowercased
TextMatch(text, q) == Includes(ToLowerCase(text), ToLowerCase(q))

\* the body of $('a').each(...) for one anchor, on the set built so far
AddAnchor(set, a, q) ==
    IF a.href = <<>> THEN set
    ELSE LET s1 == IF PathPattern(a.href) THEN SetAdd(set, a.href) ELSE set
         IN IF TextMatch(a.text, q) THEN SetAdd(s1, a.href) ELSE s1

RECURSIVE candidateLinks(_, _)
candidateLinks(page, q) ==
    IF page = <<>> THEN <<>>
    ELSE AddAnchor(candidateLinks(SubSeq(page, 1, Len(page) - 1), q), page[Len(page)], q)

PlaceHrefLast(page, q) ==
    LET c == candidateLinks(page, q) IN IF Len(c) > 0 THEN c[Len(c)] ELSE <<>>

\* placeHref = Array.from(candidateLinks)[0], or null
PlaceHref(page, q) ==
    LET c == candidateLinks(page, q) IN IF Len(c) > 0 THEN c[1] ELSE <<>>

\* placeHref.startsWith('http') ? placeHref : `https://www.tripadvisor.com${placeHref}`
PlaceUrl(href) ==
    IF Head(href) \in {"https://", "http://"} THEN href
    ELSE <<"https://", "www.tripadvisor.com">> \o href

buildTripAdvisorSearchUrl(q) ==
    <<"https://", "www.tripadvisor.com", "/Search?q=">> \o EncodeURIComponent(q)

----------------------------------------------------------------------------
(* ImageExtractor: fetchTripAdvisorImages, the place page. *)

CDN == "media-cdn.tripadvisor.com"

\* An img element is [src, dataSrc, alt]; <<>> is a missing or empty attribute.
Srcs == { <<>>,
          <<"https://", CDN, "/media/", "photo-s/", "a.jpg">>,
          <<"https://", CDN, "/media/", "photo-l/", "a.jpg">>,
          <<"https://", "dynamic-", CDN, "/media", "/-w100-h100/", "b.jpg">>,
          <<"https://", "evil.example", "/", CDN, "/c.jpg">>,
          <<"https://", "evil.example", "/d.jpg">>,
          <<"data:", "image", "/png;base64,", CDN>> }

Alts == { <<>>, <<"view", "\"">> }

ImgElements ==
    [src : Srcs, dataSrc : {<<>>}, alt : Alts]
    \cup [src : {<<>>, <<"https://", "evil.example", "/d.jpg">>},
          dataSrc : {<<"https://", "dynamic-", CDN, "/media", "/", "b.jpg">>},
          alt : {<<>>}]

Docs == SeqsUpTo(ImgElements, MaxImgs)

\* /data:image/.test(src)
IsDataImage(src) == Includes(src, <<"data:", "image">>)

\* /media-cdn\.tripadvisor\.com|dynamic-media-cdn\.tripadvisor\.com/.test(src)
accept(src) == Includes(src, <<CDN>>) \/ Includes(src, <<"dynamic-", CDN>>)

\* src.replace(/photo-s\//, 'photo-l/').replace(/\/-w\d+-h\d+\//, '/')
Normalize(src) ==
    ReplaceFirst(ReplaceFirst(src, <<"photo-s/">>, <<"photo-l/">>),
                 <<"/-w100-h100/">>, <<"/">>)

\* JSON.stringify({ src, alt }): the two strings quoted, quotes inside escaped
Escape(s) == [i \in 1..Len(s) |-> IF s[i] = "\"" THEN "\\\"" ELSE s[i]]
Unescape(s) == [i \in 1..Len(s) |-> IF s[i] = "\\\"" THEN "\"" ELSE s[i]]

JSONStringify(d) ==
    <<"{\"src\":", "\"">> \o Escape(d.src) \o <<"\"", ",\"alt\":", "\"">>
        \o Escape(d.alt) \o <<"\"", "}">>

\* JSON.parse of such a string: the text between the unescaped quotes
JSONParse(s) ==
    LET q == CHOOSE k \in 3..Len(s) : s[k] = "\"" /\ \A m \in 3..(k - 1) : s[m] # "\""
    IN [src |-> Unescape(SubSeq(s, 3, q - 1)),
        alt |-> Unescape(SubSeq(s, q + 3, Len(s) - 2))]

AddImgNoDedup(set, e) ==
    LET src == IF e.src # <<>> THEN e.src ELSE e.dataSrc
    IN IF src = <<>> \/ IsDataImage(src) \/ ~accept(src) THEN set
       ELSE Append(set, JSONStringify([src |-> Normalize(src), alt |-> e.alt]))

\* the body of $2('img').each(...) for one element, on the set built so far
AddImg(set, e) ==
    LET src == IF e.src # <<>> THEN e.src ELSE e.dataSrc
    IN IF src = <<>> THEN set
       ELSE IF IsDataImage(src) THEN set
       ELSE IF ~accept(src) THEN set
       ELSE SetAdd(set, JSONStringify([src |-> Normalize(src), alt |-> e.alt]))

RECURSIVE images(_)
images(d) ==
    IF d = <<>> THEN <<>>
    ELSE AddImg(images(SubSeq(d, 1, Len(d) - 1)), d[Len(d)])

\* Array.from(images).slice(0, max).map((s) => JSON.parse(s))
ExtractImages(d, m) ==
    LET kept == Slice(images(d), m) IN [i \in 1..Len(kept) |-> JSONParse(kept[i])]

----------------------------------------------------------------------------
(* EncyclopediaSource: fetchWikipediaImages. *)

\* search.data.query.search: the hits, each a title
Titles == { <<"Eiffel Tower">> }
SearchHits == SeqsUpTo(Titles, 1)

\* Object.values(imgs.data.query.pages): each page's imageinfo[0].url, <<>> if none
WikiUrls == { <<>>,
              <<"https://", "upload.wikimedia.org", "/a", ".jpg">>,
              <<"https://", "upload.wikimedia.org", "/b", ".PNG">>,
              <<"https://", "upload.wikimedia.org", "/c", ".svg">> }
WikiListings == SeqsUpTo(WikiUrls, MaxWikiPages)

LowerExt(t) == IF t = ".PNG" THEN ".png" ELSE IF t = ".JPG" THEN ".jpg" ELSE t

\* /\.(jpg|jpeg|png)$/i.test(u)
HasImageExt(u) == u # <<>> /\ LowerExt(u[Len(u)]) \in {".jpg", ".jpeg", ".png"}

\* .map(url || null).filter(Boolean).filter(ext)
Usable(u) == u # <<>> /\ HasImageExt(u)

\* urls.slice(0, max).map((u) => ({ src: u, alt: `${top.title} (Wikipedia)` }))
WikiImages(listing, title, m) ==
    LET urls == Slice(SelectSeq(listing, Usable), m)
    IN [i \in 1..Len(urls) |-> [src |-> urls[i], alt |-> title \o <<" (Wikipedia)">>]]

----------------------------------------------------------------------------
(* CuratedPhotoSource: searchPhotos. *)

\* A photo is [id, width, height]; id is its position in the API response.
Dims == { <<2000, 1200>>, <<3000, 2000>>, <<5000, 1000>>, <<640, 480>> }

PhotosOf(ds) == [i \in 1..Len(ds) |-> [id |-> i, width |-> ds[i][1], height |-> ds[i][2]]]

PhotoLists == { PhotosOf(ds) : ds \in SeqsUpTo(Dims, MaxPhotos) }

\* the body of the API response: data.photos, an array or not
ApiData == [isArray : {TRUE}, photos : PhotoLists]
               \cup {[isArray |-> FALSE, photos |-> <<>>]}

Area(p) == p.width * p.height

isLargeWidthOnly(p) == p.width >= MinWidth

\* const isLarge = p.width >= 2000 && p.height >= 1200
isLarge(p) == p.width >= MinWidth /\ p.height >= MinHeight

\* one step of the stable sort: x goes after every element that does not sort after it
InsertByArea(sorted, x) ==
    LET k == Cardinality({ i \in 1..Len(sorted) : Area(sorted[i]) >= Area(x) })
    IN SubSeq(sorted, 1, k) \o <<x>> \o SubSeq(sorted, k + 1, Len(sorted))

\* .sort((a, b) => b.width * b.height - a.width * a.height), a stable sort
RECURSIVE SortByArea(_)
SortByArea(s) ==
    IF s = <<>> THEN <<>>
    ELSE InsertByArea(SortByArea(SubSeq(s, 1, Len(s) - 1)), s[Len(s)])

filtered(ps) == SortByArea(SelectSeq(ps, isLarge))

\* photos.filter((p) => true).sort(...).slice(0, Math.max(5, filtered.length))
fallback(ps) == Slice(SortByArea(ps), Max2(PhotoCount, Len(filtered(ps))))

\* searchPhotos, from `const filtered` to the return
RankPhotos(ps) ==
    IF Len(filtered(ps)) >= PhotoCount THEN Slice(filtered(ps), PhotoCount)
    ELSE Slice(filtered(ps) \o fallback(ps), PhotoCount)

----------------------------------------------------------------------------
(* The request handler: module.exports (api/tripadvisor.js) and            *)
(* app.get('/api/tripadvisor') (the express server).                       *)

\* a request parameter: absent, or a string
Absent == [present |-> FALSE, value |-> <<>>]
Params == {Absent} \cup [present : {TRUE}, value : SeqsUpTo(QChars, MaxQueryLen)]
BodyParams == {Absent, [present |-> TRUE, value |-> <<" ">>],
                       [present |-> TRUE, value |-> <<"P">>]}

Requests == [queryQ : Params, bodyQ : BodyParams]

Failures == {"non2xx", "timeout", "network"}

\* the img elements of the place pages served to the handler
PlaceImgElements ==
    { e \in ImgElements :
        /\ e.alt = <<>>
        /\ e.src \in { <<>>,
                       <<"https://", CDN, "/media/", "photo-s/", "a.jpg">>,
                       <<"https://", "evil.example", "/d.jpg">> } }

PlacePages == SeqsUpTo(PlaceImgElements, MaxPlaceImgs)

\* JavaScript truthiness of a parameter: undefined and '' are falsy
Truthy(p) == p.present /\ p.value # <<>>

\* vercel:  (req.query && req.query.q) || (req.body && req.body.q) || ''
\* express: req.query.q || ''
RawQ(h, r) ==
    IF Truthy(r.queryQ) THEN r.queryQ.value
    ELSE IF h = "vercel" /\ Truthy(r.bodyQ) THEN r.bodyQ.value
    ELSE <<>>

QueryOfUntrimmed(h, r) == RawQ(h, r)

\* const query = String(q || '').trim()
QueryOf(h, r) == Trim(RawQ(h, r))

Call(kind, arg) == [kind |-> kind, arg |-> arg]

\* res.status(400).json({ error: 'Missing q' })
BadRequest ==
    [status |-> 400, kind |-> "error", images |-> <<>>, fallback |-> "",
     error |-> "Missing q"]

\* res.status(500).json({ error: 'Failed to fetch images' })
ServerError(h) ==
    [status |-> 500, kind |-> "error", images |-> <<>>, fallback |-> "",
     error |-> IF h = "vercel" THEN "Failed to fetch images"
               ELSE "Failed to fetch TripAdvisor images"]

\* res.json({ images: imgs })
ScrapeResponse(is) ==
    [status |-> 200, kind |-> "images", images |-> is, fallback |-> "", error |-> ""]

FallbackResponseTagNonEmpty(w) ==
    [status |-> 200, kind |-> "images", images |-> w,
     fallback |-> IF w = <<>> THEN "none" ELSE "wikipedia", error |-> ""]

\* res.json({ images: wiki, fallback: 'wikipedia' })
FallbackResponse(w) ==
    [status |-> 200, kind |-> "images", images |-> w, fallback |-> "wikipedia",
     error |-> ""]

idleExtract == doc = <<>> /\ max = 0 /\ list = <<>>
idlePhotos == apiKey = TRUE /\ apiOk = TRUE /\ photos = <<>> /\ result = <<>>
idleBrowser ==
    /\ input = <<>> /\ searches = <<>>
    /\ results = [kind |-> "blank", by |-> 0, items |-> <<>>, msg |-> ""]
    /\ taResults = [kind |-> "blank", by |-> 0, items |-> <<>>]
    /\ status = [text |-> "", by |-> 0, n |-> 0]
idleHandler ==
    /\ query = <<>> /\ calls = <<>> /\ searchPage = <<>> /\ placeHref = <<>>
    /\ imgs = <<>> /\ scrape = "idle" /\ top = <<>>
    /\ wiki = <<>> /\ wikiLeg = "idle" /\ responses = <<>> /\ err = ""

Init ==
    /\ pc = "start"
    /\ host \in {"vercel", "express"}
    /\ req \in Requests
    /\ host = "express" => req.bodyQ = Absent
    /\ idleHandler /\ idleExtract /\ idlePhotos /\ idleBrowser

\* if (!imgs || imgs.length === 0) { const wiki = await fetchWikipediaImages(query, 10);
\* up to its first await: the encyclopedia search is issued
CallWikipedia ==
    /\ calls' = Append(calls, Call("wikiSearch", query))
    /\ wikiLeg' = "pending"
    /\ pc' = "wikiSearch"
    /\ UNCHANGED <<responses, top, wiki>>

\* the handler from its entry to its first await
Validate ==
    /\ pc = "start"
    /\ query' = QueryOf(host, req)
    /\ IF query' = <<>>
       THEN /\ responses' = Append(responses, BadRequest)
            /\ pc' = "done"
            /\ UNCHANGED <<calls, scrape>>
       ELSE /\ calls' = Append(calls, Call("search", buildTripAdvisorSearchUrl(query')))
            /\ scrape' = "pending"
            /\ pc' = "searchFetch"
            /\ UNCHANGED responses
    /\ UNCHANGED <<host, req, searchPage, placeHref, imgs, top, wiki, wikiLeg, err,
                   extractVars, photoVars, browserVars>>

CatchScrapeRethrow ==
    /\ \E e \in Failures : err' = e
    /\ scrape' = "threw"
    /\ imgs' = <<>>
    /\ searchPage' = <<>> /\ placeHref' = <<>>
    /\ responses' = Append(responses, ServerError(host))
    /\ pc' = "done"
    /\ UNCHANGED <<host, req, query, calls, top, wiki, wikiLeg, extractVars, photoVars, browserVars>>

\* a scrape fetch rejects: fetchTripAdvisorImages throws, the handler's inner
\* catch logs, imgs is still [], the fallback is called
CatchScrape ==
    /\ \E e \in Failures : err' = e
    /\ scrape' = "threw"
    /\ imgs' = <<>>
    /\ searchPage' = <<>> /\ placeHref' = <<>>
    /\ CallWikipedia
    /\ UNCHANGED <<host, req, query, extractVars, photoVars, browserVars>>

SearchFetchFails == pc = "searchFetch" /\ CatchScrape

PlaceFetchFails == pc = "placeFetch" /\ CatchScrape

\* the search fetch fulfils: res.data
SearchFetchOk ==
    /\ pc = "searchFetch"
    /\ \E page \in SearchPages : searchPage' = page
    /\ pc' = "resolve"
    /\ UNCHANGED <<host, req, query, calls, placeHref, imgs, scrape, top, wiki,
                   wikiLeg, responses, err, extractVars, photoVars, browserVars>>

\* fetchTripAdvisorImages from cheerio.load(res.data) to `return []` (and on in the
\* handler to the fallback) or to `await axios.get(placeUrl`
ResolveLink ==
    /\ pc = "resolve"
    /\ placeHref' = PlaceHref(searchPage, query)
    /\ IF placeHref' = <<>>
       THEN /\ imgs' = <<>>
            /\ scrape' = "returned"
            /\ searchPage' = <<>>
            /\ CallWikipedia
       ELSE /\ calls' = Append(calls, Call("place", PlaceUrl(placeHref')))
            /\ pc' = "placeFetch"
            /\ UNCHANGED <<searchPage, imgs, scrape, top, wiki, wikiLeg, responses>>
    /\ UNCHANGED <<host, req, query, err, extractVars, photoVars, browserVars>>

PlaceFetchOkNoFallback ==
    /\ pc = "placeFetch"
    /\ \E d \in PlacePages : imgs' = ExtractImages(d, ScrapeMax)
    /\ scrape' = "returned"
    /\ searchPage' = <<>> /\ placeHref' = <<>>
    /\ responses' = Append(responses, ScrapeResponse(imgs'))
    /\ pc' = "done"
    /\ UNCHANGED <<calls, top, wiki, wikiLeg>>
    /\ UNCHANGED <<host, req, query, err, extractVars, photoVars, browserVars>>

\* the place fetch fulfils: fetchTripAdvisorImages from cheerio.load(res2.data) to
\* its return, then the handler to the fallback or to res.json({ images: imgs })
PlaceFetchOk ==
    /\ pc = "placeFetch"
    /\ \E d \in PlacePages : imgs' = ExtractImages(d, ScrapeMax)
    /\ scrape' = "returned"
    /\ searchPage' = <<>> /\ placeHref' = <<>>
    /\ IF imgs' = <<>>
       THEN CallWikipedia
       ELSE /\ responses' = Append(responses, ScrapeResponse(imgs'))
            /\ pc' = "done"
            /\ UNCHANGED <<calls, top, wiki, wikiLeg>>
    /\ UNCHANGED <<host, req, query, err, extractVars, photoVars, browserVars>>

CatchWikiAbsorbed ==
    /\ \E e \in Failures : err' = e
    /\ wikiLeg' = "threw"
    /\ wiki' = <<>>
    /\ top' = <<>>
    /\ responses' = Append(responses, FallbackResponse(<<>>))
    /\ pc' = "done"
    /\ UNCHANGED <<host, req, query, calls, searchPage, placeHref, imgs, scrape,
                   extractVars, photoVars, browserVars>>

\* an encyclopedia call rejects: fetchWikipediaImages throws, the handler's
\* outer catch answers
CatchWiki ==
    /\ \E e \in Failures : err' = e
    /\ wikiLeg' = "threw"
    /\ top' = <<>>
    /\ responses' = Append(responses, ServerError(host))
    /\ pc' = "done"
    /\ UNCHANGED <<host, req, query, calls, searchPage, placeHref, imgs, scrape,
                   wiki, extractVars, photoVars, browserVars>>

WikiSearchFails == pc = "wikiSearch" /\ CatchWiki

WikiImagesFails == pc = "wikiImages" /\ CatchWiki

\* the encyclopedia search fulfils: top = search.data.query.search[0];
\* `if (!top) return []` and the handler answers, or the image listing is issued
WikiSearchOk ==
    /\ pc = "wikiSearch"
    /\ \E hits \in SearchHits :
          IF hits = <<>>
          THEN /\ wiki' = <<>>
               /\ wikiLeg' = "returned"
               /\ responses' = Append(responses, FallbackResponse(wiki'))
               /\ pc' = "done"
               /\ UNCHANGED <<top, calls>>
          ELSE /\ top' = hits[1]
               /\ calls' = Append(calls, Call("wikiImages", top'))
               /\ pc' = "wikiImages"
               /\ UNCHANGED <<wiki, wikiLeg, responses>>
    /\ UNCHANGED <<host, req, query, searchPage, placeHref, imgs, scrape, err,
                   extractVars, photoVars, browserVars>>

WikiImagesOkNoReturn ==
    /\ pc = "wikiImages"
    /\ \E listing \in WikiListings : wiki' = WikiImages(listing, top, WikiMax)
    /\ wikiLeg' = "returned"
    /\ top' = <<>>
    /\ responses' = responses \o <<FallbackResponse(wiki'), ScrapeResponse(imgs)>>
    /\ pc' = "done"
    /\ UNCHANGED <<host, req, query, calls, searchPage, placeHref, imgs, scrape,
                   err, extractVars, photoVars, browserVars>>

\* the image listing fulfils: fetchWikipediaImages returns, the handler answers
WikiImagesOk ==
    /\ pc = "wikiImages"
    /\ \E listing \in WikiListings : wiki' = WikiImages(listing, top, WikiMax)
    /\ wikiLeg' = "returned"
    /\ top' = <<>>
    /\ responses' = Append(responses, FallbackResponse(wiki'))
    /\ pc' = "done"
    /\ UNCHANGED <<host, req, query, calls, searchPage, placeHref, imgs, scrape,
                   err, extractVars, photoVars, browserVars>>

Next ==
    \/ Validate
    \/ SearchFetchFails
    \/ SearchFetchOk
    \/ ResolveLink
    \/ PlaceFetchFails
    \/ PlaceFetchOk
    \/ WikiSearchFails
    \/ WikiSearchOk
    \/ WikiImagesFails
    \/ WikiImagesOk

Spec == Init /\ [][Next]_vars

\* every axios.get carries a timeout (15000 / 10000 ms), so each pending fetch
\* settles and the continuation that awaits it runs
FairSpec == Spec /\ WF_vars(Next)

----------------------------------------------------------------------------
(* Image extraction on its own: every document and every max. *)

InitExtract ==
    /\ pc = "extract"
    /\ doc \in Docs
    /\ max \in 0..MaxMax
    /\ list = <<>>
    /\ host = "vercel" /\ req = [queryQ |-> Absent, bodyQ |-> Absent]
    /\ idleHandler /\ idlePhotos /\ idleBrowser

\* fetchTripAdvisorImages from cheerio.load(res2.data) to its return
ExtractStep ==
    /\ pc = "extract"
    /\ list' = ExtractImages(doc, max)
    /\ pc' = "extracted"
    /\ UNCHANGED <<doc, max, handlerVars, photoVars, browserVars>>

NextExtract == ExtractStep

SpecExtract == InitExtract /\ [][NextExtract]_vars

----------------------------------------------------------------------------
(* searchPhotos on its own: every API response. *)

InitPhotos ==
    /\ pc = "searchPhotos"
    /\ apiKey \in BOOLEAN
    /\ apiOk = TRUE /\ photos = <<>> /\ result = <<>>
    /\ host = "vercel" /\ req = [queryQ |-> Absent, bodyQ |-> Absent]
    /\ idleHandler /\ idleExtract /\ idleBrowser

\* if (!API_KEY) throw ...; otherwise up to `await fetch(`
PhotosCall ==
    /\ pc = "searchPhotos"
    /\ pc' = IF apiKey THEN "photosFetch" ELSE "photosThrew"
    /\ UNCHANGED <<handlerVars, extractVars, photoVars, browserVars>>

\* the fetch rejects, or if (!response.ok) throw ...
PhotosFetchFails ==
    /\ pc = "photosFetch"
    /\ apiOk' = FALSE
    /\ pc' = "photosThrew"
    /\ UNCHANGED <<handlerVars, extractVars, browserVars, apiKey, photos, result>>

\* response.ok: const photos = Array.isArray(data.photos) ? data.photos : [] and on
\* to the return
PhotosFetchOk ==
    /\ pc = "photosFetch"
    /\ \E data \in ApiData : photos' = IF data.isArray THEN data.photos ELSE <<>>
    /\ result' = RankPhotos(photos')
    /\ pc' = "photosReturned"
    /\ UNCHANGED <<handlerVars, extractVars, browserVars, apiKey, apiOk>>

NextPhotos ==
    \/ PhotosCall
    \/ PhotosFetchFails
    \/ PhotosFetchOk

SpecPhotos == InitPhotos /\ [][NextPhotos]_vars

----------------------------------------------------------------------------
(* The browser: wireEvents, handleSearch, searchTripAdvisorImages. *)

\* const defaultQuery = 'Eiffel Tower'
DefaultQuery == <<"Eiffel Tower">>

\* what the user may have typed when the form is submitted
UserInputs == { <<" ">>, <<"P", " ">>, <<"Eiffel Tower">> }

\* data.photos of the curated API, as far as the page needs it
SearchPhotoLists == { PhotosOf(ds) : ds \in SeqsUpTo({<<3000, 2000>>}, 1) }

\* data.images of the /api/tripadvisor answer
TaImages == { <<>>, <<[src |-> <<"https://", CDN, "/media/", "photo-l/", "a.jpg">>,
                       alt |-> <<>>]>> }

Pending == [st |-> "pending", val |-> <<>>, msg |-> ""]
Fulfilled(v) == [st |-> "fulfilled", val |-> v, msg |-> ""]
Rejected(m) == [st |-> "rejected", val |-> <<>>, msg |-> m]

TaUncaught == Rejected("TripAdvisor fetch failed")

\* searchTripAdvisorImages(trimmed).catch(() => [])
TaCaught == Fulfilled(<<>>)

\* the DOM of the page
Dom == [results |-> results, taResults |-> taResults, status |-> status]

\* setStatus('Searching photos...'); renderSkeleton(5)
SkeletonDom(i) ==
    [results   |-> [kind |-> "skeleton", by |-> i, items |-> <<>>, msg |-> ""],
     taResults |-> [kind |-> "blank", by |-> i, items |-> <<>>],
     status    |-> [text |-> "searching", by |-> i, n |-> SkeletonCount]]

\* the try block after the await: clearResults() and the rendering of both lists
RenderDom(i, ps, tas) ==
    [results   |-> [kind |-> IF ps = <<>> THEN "noresults" ELSE "photos",
                    by |-> i, items |-> ps, msg |-> ""],
     taResults |-> IF tas = <<>> THEN [kind |-> "none", by |-> i, items |-> <<>>]
                   ELSE [kind |-> "images", by |-> i, items |-> Slice(tas, TaShown)],
     status    |-> [text |-> "showing", by |-> i, n |-> Len(ps)]]

\* the catch block: clearResults(), the message, setStatus('')
ErrorDom(i, m) ==
    [results   |-> [kind |-> "error", by |-> i, items |-> <<>>,
                    msg |-> IF m = "" THEN "Something went wrong." ELSE m],
     taResults |-> [kind |-> "blank", by |-> i, items |-> <<>>],
     status    |-> [text |-> "", by |-> i, n |-> 0]]

\* await Promise.all([photos leg, scrape-endpoint leg]) and what follows it:
\* rejected as soon as a leg rejects, fulfilled once both legs are
Resume(i, rec, dom) ==
    IF rec.out # "pending" THEN [rec |-> rec, dom |-> dom]
    ELSE IF rec.photos.st = "rejected"
         THEN [rec |-> [rec EXCEPT !.out = "error"], dom |-> ErrorDom(i, rec.photos.msg)]
    ELSE IF rec.ta.st = "rejected"
         THEN [rec |-> [rec EXCEPT !.out = "error"], dom |-> ErrorDom(i, rec.ta.msg)]
    ELSE IF rec.photos.st = "fulfilled" /\ rec.ta.st = "fulfilled"
         THEN [rec |-> [rec EXCEPT !.out = "rendered"],
               dom |-> RenderDom(i, rec.photos.val, rec.ta.val)]
    ELSE [rec |-> rec, dom |-> dom]

SetDom(d) ==
    /\ results' = d.results
    /\ taResults' = d.taResults
    /\ status' = d.status

\* handleSearch(v) from its entry to its await
HandleSearch(v) ==
    LET trimmed == Trim(v)
        i == Len(searches) + 1
        rec == [query  |-> trimmed,
                photos |-> IF apiKey THEN Pending
                           ELSE Rejected("Missing Pexels API key. Define window.PEXELS_API_KEY."),
                ta     |-> Pending,
                failed |-> FALSE,
                out    |-> "pending"]
        r == Resume(i, rec, SkeletonDom(i))
    IN IF trimmed = <<>> THEN UNCHANGED <<searches, results, taResults, status>>
       ELSE searches' = Append(searches, r.rec) /\ SetDom(r.dom)

\* a leg of search i settles and handleSearch resumes if Promise.all has settled
Settle(i, rec) ==
    LET r == Resume(i, rec, Dom)
    IN searches' = [searches EXCEPT ![i] = r.rec] /\ SetDom(r.dom)

InitSearch ==
    /\ pc = "loading"
    /\ apiKey \in BOOLEAN
    /\ apiOk = TRUE /\ photos = <<>> /\ result = <<>>
    /\ host = "vercel" /\ req = [queryQ |-> Absent, bodyQ |-> Absent]
    /\ idleHandler /\ idleExtract /\ idleBrowser

\* DOMContentLoaded: wireEvents
WireEvents ==
    /\ pc = "loading"
    /\ pc' = "ready"
    /\ input' = DefaultQuery
    /\ HandleSearch(DefaultQuery)
    /\ UNCHANGED <<handlerVars, extractVars, photoVars>>

\* the form's submit listener
Submit ==
    /\ pc = "ready"
    /\ Len(searches) < MaxSearches
    /\ \E v \in UserInputs : input' = v /\ HandleSearch(v)
    /\ UNCHANGED <<pc, handlerVars, extractVars, photoVars>>

\* searchPhotos of search i returns
PhotosFulfil ==
    /\ pc = "ready"
    /\ \E i \in 1..Len(searches) :
          /\ searches[i].photos.st = "pending"
          /\ \E ps \in SearchPhotoLists :
                Settle(i, [searches[i] EXCEPT !.photos = Fulfilled(RankPhotos(ps))])
    /\ UNCHANGED <<pc, input, handlerVars, extractVars, photoVars>>

\* searchPhotos of search i throws: the fetch rejects or !response.ok
PhotosReject ==
    /\ pc = "ready"
    /\ \E i \in 1..Len(searches) :
          /\ searches[i].photos.st = "pending"
          /\ \E m \in {"Request failed", "Failed to fetch"} :
                Settle(i, [searches[i] EXCEPT !.photos = Rejected(m)])
    /\ UNCHANGED <<pc, input, handlerVars, extractVars, photoVars>>

\* searchTripAdvisorImages of search i returns data.images, or [] if not an array
TaFulfil ==
    /\ pc = "ready"
    /\ \E i \in 1..Len(searches) :
          /\ searches[i].ta.st = "pending"
          /\ \E is \in TaImages :
                Settle(i, [searches[i] EXCEPT !.ta = Fulfilled(is)])
    /\ UNCHANGED <<pc, input, handlerVars, extractVars, photoVars>>

\* searchTripAdvisorImages of search i throws: the fetch rejects or !res.ok
TaFail ==
    /\ pc = "ready"
    /\ \E i \in 1..Len(searches) :
          /\ searches[i].ta.st = "pending"
          /\ Settle(i, [searches[i] EXCEPT !.ta = TaCaught, !.failed = TRUE])
    /\ UNCHANGED <<pc, input, handlerVars, extractVars, photoVars>>

NextSearch ==
    \/ WireEvents
    \/ Submit
    \/ PhotosFulfil
    \/ PhotosReject
    \/ TaFulfil
    \/ TaFail

SpecSearch == InitSearch /\ [][NextSearch]_vars

----------------------------------------------------------------------------
(* Properties of the request handler, checked under Spec. *)

AllSpaces(s) == \A i \in 1..Len(s) : s[i] = " "

\* the q parameter the handler reads is missing, empty or whitespace-only
BlankQ == AllSpaces(RawQ(host, req))

CallsOf(kinds) == { i \in 1..Len(calls) : calls[i].kind \in kinds }

WikiCalled == CallsOf({"wikiSearch", "wikiImages"}) # {}

\* the scrape leg has completed with zero images (empty list or absorbed failure)
ScrapeZero == scrape \in {"returned", "threw"} /\ imgs = <<>>

Answered == pc = "done" /\ Len(responses) = 1

\* C1: a request whose q is missing, empty or whitespace-only is answered with
\* status 400 and no outbound network call is ever issued for it.
C1_BlankRejected ==
    BlankQ =>
        /\ calls = <<>>
        /\ pc \in {"start", "done"}
        /\ pc = "done" => Len(responses) = 1 /\ responses[1].status = 400

C1_Witness ==
    /\ pc = "done"
    /\ req.queryQ.present /\ req.queryQ.value # <<>> /\ AllSpaces(req.queryQ.value)
    /\ Len(responses) = 1 /\ responses[1].status = 400
    /\ calls = <<>>

\* C2: for a non-empty query the encyclopedia is invoked if and only if the scrape
\* leg has completed with zero images; only then is the response tagged as the
\* fallback; when the scrape leg yields an image the response carries exactly the
\* scrape images and the encyclopedia is never called.
C2_FallbackIffScrapeEmpty ==
    ~BlankQ /\ pc # "start" =>
        /\ WikiCalled <=> ScrapeZero
        /\ \A i \in 1..Len(responses) :
              responses[i].fallback = "wikipedia" => ScrapeZero
        /\ scrape = "returned" /\ imgs # <<>> =>
              /\ ~WikiCalled
              /\ Answered
              /\ responses[1].status = 200
              /\ responses[1].images = imgs
              /\ responses[1].fallback = ""

C2_Witness ==
    /\ Answered
    /\ scrape = "returned" /\ imgs = <<>>
    /\ CallsOf({"place"}) # {}
    /\ WikiCalled
    /\ responses[1].fallback = "wikipedia" /\ responses[1].images # <<>>

\* C3: a transport failure of the search-page or place-page fetch becomes an empty
\* scrape result and never an error response by itself: the fallback is always
\* attempted and the outcome is the fallback's alone.
C3_ScrapeFailureAbsorbed ==
    scrape = "threw" =>
        /\ imgs = <<>>
        /\ CallsOf({"wikiSearch"}) # {}
        /\ pc = "done" =>
              /\ Len(responses) = 1
              /\ wikiLeg \in {"returned", "threw"}
              /\ wikiLeg = "returned" =>
                    /\ responses[1].status = 200
                    /\ responses[1].images = wiki
              /\ wikiLeg = "threw" => responses[1].status = 500

C3_Witness ==
    /\ Answered
    /\ scrape = "threw" /\ err = "timeout"
    /\ CallsOf({"place"}) # {}
    /\ responses[1].status = 200 /\ responses[1].images # <<>>

\* C4 as stated: a failure of either encyclopedia call is absorbed to an empty
\* result and the endpoint never answers with an error status because of it.
C4_WikiFailureAbsorbed ==
    wikiLeg = "threw" =>
        \A i \in 1..Len(responses) :
            responses[i].status = 200 /\ responses[i].images = <<>>

\* C4 amended: a failure of either encyclopedia call is not absorbed by the
\* endpoint; the handler answers it, once, with status 500 and an error body
\* that carries no image list.
C4_WikiFailureIs500 ==
    wikiLeg = "threw" =>
        /\ Answered
        /\ responses[1].status = 500
        /\ responses[1].kind = "error"
        /\ responses[1].images = <<>>
        /\ wiki = <<>>

C4_Witness ==
    /\ Answered
    /\ wikiLeg = "threw"
    /\ CallsOf({"wikiImages"}) # {}
    /\ responses[1].status = 500

\* C5 as stated: when the scrape leg yields no images and the encyclopedia yields
\* none either, the result has an empty image list and is not tagged as coming
\* from the encyclopedia.
C5_BothEmptyTaggedNone ==
    Answered /\ ScrapeZero /\ wikiLeg = "returned" /\ wiki = <<>> =>
        /\ responses[1].images = <<>>
        /\ responses[1].fallback # "wikipedia"

\* C5 amended: in that case the response is a 200 with an empty image list that
\* still carries the fallback tag 'wikipedia'.
C5_BothEmptyTaggedWikipedia ==
    Answered /\ ScrapeZero /\ wikiLeg = "returned" /\ wiki = <<>> =>
        /\ responses[1].status = 200
        /\ responses[1].images = <<>>
        /\ responses[1].fallback = "wikipedia"

C5_Witness ==
    /\ Answered /\ ScrapeZero /\ wikiLeg = "returned" /\ wiki = <<>>
    /\ CallsOf({"wikiImages"}) # {}
    /\ responses[1].fallback = "wikipedia"

\* an anchor that matches a path pattern or whose text contains the lowercased query
AnchorMatches(a, q) == PathPattern(a.href) \/ TextMatch(a.text, q)

\* the candidates of a page: matching anchors that have an href, by position
CandidateIdx(page, q) ==
    { i \in 1..Len(page) : page[i].href # <<>> /\ AnchorMatches(page[i], q) }

FirstCandidate(page, q) ==
    page[CHOOSE i \in CandidateIdx(page, q) : \A j \in CandidateIdx(page, q) : i <= j]

PlaceCalls(cs) == Cardinality({ i \in 1..Len(cs) : cs[i].kind = "place" })

\* C10: a search page with no matching anchor yields no candidate and
\* fetchTripAdvisorImages returns [] without ever issuing the place-page fetch;
\* the place-page fetch is issued only after the search fetch succeeded and
\* produced a candidate, and goes to the first candidate in document order.
C10_PlaceFetchOnlyForFirstCandidate ==
    [][ /\ pc = "resolve" /\ (\A i \in 1..Len(searchPage) : ~AnchorMatches(searchPage[i], query)) =>
              /\ placeHref' = <<>>
              /\ scrape' = "returned" /\ imgs' = <<>>
              /\ PlaceCalls(calls') = 0
        /\ scrape \in {"returned", "threw"} => PlaceCalls(calls') = PlaceCalls(calls)
        /\ PlaceCalls(calls') # PlaceCalls(calls) =>
              /\ pc = "resolve"
              /\ PlaceCalls(calls) = 0
              /\ calls # <<>> /\ calls[1].kind = "search"
              /\ CandidateIdx(searchPage, query) # {}
              /\ calls' = Append(calls,
                    Call("place", PlaceUrl(FirstCandidate(searchPage, query).href)))
      ]_vars

C10_Witness ==
    /\ pc = "placeFetch"
    /\ Len(searchPage) >= 2
    /\ {1, 2} \subseteq CandidateIdx(searchPage, query)
    /\ searchPage[1].href # searchPage[2].href
    /\ ~PathPattern(searchPage[1].href)
    /\ calls[Len(calls)] = Call("place", PlaceUrl(searchPage[1].href))

----------------------------------------------------------------------------
(* Properties of the image extraction, checked under SpecExtract. *)

\* the host of a URL: the labels between the scheme and the path
HostLabels == {CDN, "dynamic-", "evil.example", "www.tripadvisor.com"}

RECURSIVE LabelPrefix(_)
LabelPrefix(s) ==
    IF s = <<>> \/ Head(s) \notin HostLabels THEN <<>>
    ELSE <<Head(s)>> \o LabelPrefix(Tail(s))

HostOf(src) ==
    IF src # <<>> /\ Head(src) \in {"https://", "http://"} THEN LabelPrefix(Tail(src))
    ELSE <<>>

IsDataURI(src) == src # <<>> /\ Head(src) = "data:"

\* C8: the extraction never emits a descriptor whose src host is other than
\* media-cdn.tripadvisor.com or dynamic-media-cdn.tripadvisor.com (the name
\* appearing in the path or query does not count), and never a data URI.
C8_OnlyCdnHosts ==
    pc = "extracted" =>
        \A i \in 1..Len(list) :
            /\ HostOf(list[i].src) \in {<<CDN>>, <<"dynamic-", CDN>>}
            /\ ~IsDataURI(list[i].src)

\* what the img loop takes from one element
RawSrc(e) == IF e.src # <<>> THEN e.src ELSE e.dataSrc

Accepted(e) == RawSrc(e) # <<>> /\ ~IsDataImage(RawSrc(e)) /\ accept(RawSrc(e))

Pair(e) == [src |-> Normalize(RawSrc(e)), alt |-> e.alt]

AcceptedIdx == { i \in 1..Len(doc) : Accepted(doc[i]) }

DistinctPairs == { Pair(doc[i]) : i \in AcceptedIdx }

FirstIdx(d) ==
    CHOOSE i \in AcceptedIdx :
        Pair(doc[i]) = d /\ \A j \in AcceptedIdx : Pair(doc[j]) = d => i <= j

\* C9: the returned list holds no two descriptors with the same (normalized src,
\* alt), has length at most max, and is the first max distinct accepted pairs in
\* the order of their first appearance in the document.
C9_DistinctOrderedCapped ==
    pc = "extracted" =>
        /\ \A i, j \in 1..Len(list) : i < j => list[i] # list[j]
        /\ Len(list) <= max
        /\ Len(list) = Min2(max, Cardinality(DistinctPairs))
        /\ \A i \in 1..Len(list) : list[i] \in DistinctPairs
        /\ \A i, j \in 1..Len(list) : i < j => FirstIdx(list[i]) < FirstIdx(list[j])
        /\ \A d \in DistinctPairs \ Range(list) :
              \A i \in 1..Len(list) : FirstIdx(list[i]) < FirstIdx(d)

C9_Witness ==
    /\ pc = "extracted"
    /\ Len(list) >= 1
    /\ Cardinality(DistinctPairs) > Len(list)
    /\ \E i, j \in AcceptedIdx :
          /\ i < j
          /\ RawSrc(doc[i]) # RawSrc(doc[j])
          /\ Pair(doc[i]) = Pair(doc[j])
          /\ list[1] = Pair(doc[i])

----------------------------------------------------------------------------
(* Properties of searchPhotos, checked under SpecPhotos. *)

\* a photo qualifies as large: width >= 2000 and height >= 1200
Qualifies(p) == p.width >= 2000 /\ p.height >= 1200

Qualifying == { i \in 1..Len(photos) : Qualifies(photos[i]) }

\* C6: with at least 5 qualifying photos searchPhotos returns exactly 5, all
\* qualifying, by non-increasing area, and they are the 5 largest qualifying.
C6_FiveLargestQualifying ==
    pc = "photosReturned" /\ Cardinality(Qualifying) >= 5 =>
        /\ Len(result) = 5
        /\ \A i \in 1..5 : result[i] \in Range(photos) /\ Qualifies(result[i])
        /\ \A i, j \in 1..5 : i < j =>
              /\ Area(result[i]) >= Area(result[j])
              /\ result[i].id # result[j].id
        /\ \A k \in Qualifying :
              photos[k] \notin Range(result) => Area(photos[k]) <= Area(result[5])

C6_Witness ==
    /\ pc = "photosReturned"
    /\ Cardinality(Qualifying) >= 6
    /\ \E k \in 1..Len(photos) :
          ~Qualifies(photos[k]) /\ Area(photos[k]) > Area(result[5])
    /\ Len(result) = 5
    /\ Area(result[1]) > Area(result[5])
    /\ Area(photos[1]) < Area(photos[Len(photos)])

\* C7: with at least 5 photos of which fewer than 5 qualify, searchPhotos returns
\* exactly 5: the qualifying ones first, by descending area, and in every later
\* position a backfilled photo that is not one of the qualifying ones.
C7_BackfillAfterQualifying ==
    pc = "photosReturned" /\ Len(photos) >= 5 /\ Cardinality(Qualifying) < 5 =>
        LET k == Cardinality(Qualifying) IN
        /\ Len(result) = 5
        /\ \A i \in 1..k : Qualifies(result[i])
        /\ \A i, j \in 1..k : i < j =>
              /\ Area(result[i]) >= Area(result[j])
              /\ result[i].id # result[j].id
        /\ \A i \in (k + 1)..5 : ~Qualifies(result[i])

\* C14: the sequence returned by searchPhotos contains each photo of the response
\* at most once, so it is never longer than the response.
C14_EachPhotoOnce ==
    pc = "photosReturned" =>
        /\ \A i, j \in 1..Len(result) : i < j => result[i].id # result[j].id
        /\ Len(result) <= Len(photos)

----------------------------------------------------------------------------
(* Properties of the request handler that need its fairness, checked under *)
(* FairSpec.                                                               *)

\* the four answers of the handler
IsAnswer(r) ==
    \/ r.status = 400 /\ r.kind = "error"
    \/ r.status = 200 /\ r.kind = "images" /\ r.fallback = "" /\ r.images # <<>>
    \/ r.status = 200 /\ r.kind = "images" /\ r.fallback = "wikipedia"
    \/ r.status = 500 /\ r.kind = "error"

\* C12: whatever the four outbound fetches do, exactly one response is sent (400,
\* 200 with scrape images, 200 with fallback images, or 500) and every request
\* eventually receives it; no path sends two responses or none.
C12_ExactlyOneResponse ==
    /\ [](Len(responses) <= 1)
    /\ [](\A i \in 1..Len(responses) : IsAnswer(responses[i]))
    /\ [](Len(responses) = 1 <=> pc = "done")
    /\ <>[](pc = "done" /\ Len(responses) = 1)

C12_Witness ==
    /\ pc = "done"
    /\ Len(responses) = 1 /\ responses[1].status = 500
    /\ Len(calls) = 4

----------------------------------------------------------------------------
(* Properties of the page's search, checked under SpecSearch. *)

\* search i leaves its await in this step
Completes(i) ==
    /\ searches'[i].out # "pending"
    /\ i > Len(searches) \/ searches[i].out = "pending"

\* the page shows what search i retrieved
Shows(i, d) ==
    /\ d.results.by = i
    /\ d.results.kind \in {"photos", "noresults"}
    /\ d.results.items = searches'[i].photos.val
    /\ d.status.text = "showing" /\ d.status.by = i
    /\ d.taResults.items = Slice(searches'[i].ta.val, TaShown)

\* C11: both legs of handleSearch are issued before either is awaited; the
\* photos are rendered only in the step in which the second of the two legs
\* settles; a failed scrape-endpoint request counts as settled with no images
\* and the photos are rendered all the same; a failed photo leg ends the
\* search with its error message in the results area and an empty status line.
C11_LegsIndependent ==
    [][\A i \in 1..Len(searches') :
          LET s == searches'[i] IN
          /\ i > Len(searches) =>
                /\ s.ta.st = "pending"
                /\ s.photos.st \in {"pending", "rejected"}
          /\ s.out = "rendered" <=> s.photos.st = "fulfilled" /\ s.ta.st = "fulfilled"
          /\ s.out = "error" <=> s.photos.st = "rejected"
          /\ s.failed => s.ta = Fulfilled(<<>>)
          /\ Completes(i) /\ s.out = "rendered" =>
                Shows(i, [results |-> results', taResults |-> taResults',
                          status |-> status'])
          /\ Completes(i) /\ s.out = "error" =>
                /\ results' = [kind |-> "error", by |-> i, items |-> <<>>,
                               msg |-> s.photos.msg]
                /\ s.photos.msg # ""
                /\ status'.text = ""
      ]_vars

\* a search whose scrape-endpoint request failed has its photos on the page
C11_Witness ==
    /\ Len(searches) >= 1
    /\ searches[1].failed /\ searches[1].out = "rendered"
    /\ results.by = 1 /\ results.kind = "photos" /\ Len(results.items) > 0
    /\ taResults.kind = "none"

Settled(i) == searches[i].photos.st # "pending" /\ searches[i].ta.st # "pending"

\* what the user sees of a DOM
Visible(d) ==
    [kind |-> d.results.kind, items |-> d.results.items, msg |-> d.results.msg,
     taKind |-> d.taResults.kind, taItems |-> d.taResults.items,
     text |-> d.status.text, n |-> d.status.n,
     for |-> IF d.status.text = "showing" THEN searches[d.status.by].query ELSE <<>>]

\* what search i puts on the page when it leaves its await
Outcome(i) ==
    IF searches[i].out = "error" THEN ErrorDom(i, searches[i].photos.msg)
    ELSE RenderDom(i, searches[i].photos.val, searches[i].ta.val)

\* C13: once every search has settled, the results area and the status line
\* show the outcome of the search submitted last.
C13_LatestQueryShown ==
    (searches # <<>> /\ \A i \in 1..Len(searches) : Settled(i)) =>
        Visible(Dom) = Visible(Outcome(Len(searches)))

====
